---- MODULE Spec2Model ----
\* Portfolio server of Grizak/isaksweb-home: the catalog of projects, skills
\* and "currently learning" entries behind the admin API, the GitHub import
\* and the two token strategies (in-memory session set, signed token).
\*
\* Two server revisions are modelled; `variant` says which one a behaviour
\* is about:
\*   "memory"    src/server/src/index.ts  (in-memory catalog, session set,
\*               GitHub import); src/unnamed/part_000 is the same server
\*               without the import
\*   "document"  src/unnamed/part_001     (document store, signed tokens)
EXTENDS Integers, Sequences, FiniteSets, TLC

\* ---------------------------------------------------------------- bounds

\* The clock runs from 0 to MaxTime (in units of half a token lifetime).
MaxTime == 3
\* Longest upstream repository list.
MaxUpstream == 2
\* projectsFromGithub / dashboardProjects never grow beyond this length.
MaxProjects == 2
\* Number of distinct values Math.random() contributes to a token.
NumRand == 1
\* Successful project create / update / delete requests in one behaviour.
MaxEdits == 2
\* Longest text typed into a technologies field of the Dashboard.
MaxInput == 3

\* ------------------------------------------------------ program constants

\* perPage = 100, scaled.
PerPage == 2
\* 24 * 60 * 60 * 1000 ms (and expiresIn: "24h"), in clock units.
TokenTTL == 2
\* Math.max() of no arguments is -Infinity, and -Infinity + 1 is -Infinity.
NegInfinity == -1000

\* ------------------------------------------------------------ JS helpers

\* JavaScript null / undefined, as values that equal no string of the model.
Null == "null"
Undefined == <<-1>>
EmptyString == <<>>

\* Truthiness of a string-or-null value (repo.language) and of a token.
TruthyString(x) == x # Null /\ x # ""
Truthy(x) == x # Undefined /\ x # EmptyString

Min(a, b) == IF a < b THEN a ELSE b

\* { ...a, ...b }: the keys of both, b's value where both have the key.
Spread(a, b) ==
  [f \in (DOMAIN a) \cup (DOMAIN b) |-> IF f \in DOMAIN b THEN b[f] ELSE a[f]]

\* x + 1 on JS numbers.
PlusOne(x) == IF x = NegInfinity THEN NegInfinity ELSE x + 1

RECURSIVE MathMax(_)
\* Math.max(...ids) over a sequence of numbers.
MathMax(ids) ==
  IF ids = <<>> THEN NegInfinity
  ELSE LET m == MathMax(Tail(ids))
       IN  IF m = NegInfinity \/ Head(ids) > m THEN Head(ids) ELSE m

\* projects.map((p) => p.id)
Ids(projects) == [i \in DOMAIN projects |-> projects[i].id]

\* findIndex((p) => p.id === id): the first index, 0 for -1.
FindIndex(projects, id) ==
  IF \E i \in DOMAIN projects : projects[i].id = id
  THEN CHOOSE i \in DOMAIN projects :
         /\ projects[i].id = id
         /\ \A j \in DOMAIN projects : projects[j].id = id => i <= j
  ELSE 0

\* A splice without its delete count: everything from i on is removed.
Splice_ToEnd(s, i) == SubSeq(s, 1, i - 1)

\* array.splice(i, 1)
Splice(s, i) == SubSeq(s, 1, i - 1) \o SubSeq(s, i + 1, Len(s))

\* ------------------------------------------------------- request inputs

\* The repositories the external API can list (name, description, language,
\* html_url are the fields loadProjects reads).
RepoA1 == [name |-> "a", description |-> "d1", language |-> "TS", html_url |-> "gh/a"]
RepoA2 == [name |-> "a", description |-> "d2", language |-> "TS", html_url |-> "gh/a"]
RepoB  == [name |-> "b", description |-> Null, language |-> Null, html_url |-> "gh/b"]
RepoC  == [name |-> "c", description |-> "d3", language |-> "Go", html_url |-> "gh/c"]

\* What the account lists at different times: nothing; one repository; that
\* repository with a new description next to a new one; three of them.
UpstreamLists ==
  {l \in { <<>>, <<RepoA1>>, <<RepoA2, RepoB>>, <<RepoB, RepoA1, RepoC>> } :
     Len(l) <= MaxUpstream}

\* Request bodies of the project create and update endpoints.
ProjectBodies ==
  { [featured |-> TRUE],
    [title |-> "T", demoUrl |-> "demo"],
    [id |-> 1, title |-> "Y", tech |-> <<"Go">>] }

\* :id path parameters (parseInt of the path segment).
PathIds == {1, 2}

\* Skill lists and learning lists of the replace endpoints.
DefaultSkills ==
  << [name |-> "TypeScript", level |-> 95, category |-> "frontend"],
     [name |-> "React", level |-> 90, category |-> "frontend"],
     [name |-> "Node.js", level |-> 85, category |-> "backend"],
     [name |-> "MongoDB", level |-> 80, category |-> "database"],
     [name |-> "TailwindCSS", level |-> 88, category |-> "frontend"],
     [name |-> "Express.js", level |-> 95, category |-> "backend"] >>
SkillLists ==
  { << [name |-> "Go", level |-> 50, category |-> "backend"] >> }
\* req.body.skills of the requests that replace the skills: two lists that
\* fit skillSchema, one with a level above 100 behind a good entry, one
\* with a category outside the enum.
GoSkills == << [name |-> "Go", level |-> 50, category |-> "backend"] >>
RustSkills ==
  << [name |-> "Rust", level |-> 30, category |-> "other"],
     [name |-> "Vue", level |-> 60, category |-> "frontend"] >>
BadLevelSkills ==
  << [name |-> "Go", level |-> 50, category |-> "backend"],
     [name |-> "Zig", level |-> 101, category |-> "tools"] >>
BadCategorySkills == << [name |-> "Figma", level |-> 70, category |-> "design"] >>
SkillInputs == {GoSkills, RustSkills, BadLevelSkills, BadCategorySkills}
DefaultLearning == << "Typescript", "React", "TailwindCSS" >>
LearningLists == { << "Rust" >> }

Usernames == {"admin", "root"}
Passwords == {"password", "guess"}

\* ------------------------------------------------------------- variables

VARIABLES
  variant,             \* "memory" | "document"
  now,                 \* Date.now()
  upstream,            \* what the external repository API lists
  listening,           \* app.listen has been called
  imp,                 \* the loadProjects call in flight, if any
  projectsFromGithub,  \* index.ts:199
  techs,               \* index.ts:200
  nextId,              \* index.ts:201
  dashboardProjects,   \* index.ts:204
  dashboardSkills,     \* index.ts:205
  currentlyLearning,   \* index.ts:238
  activeSessions,      \* index.ts:176
  timers,              \* pending setTimeout callbacks (index.ts:294)
  isReady,             \* part_001:12
  Project,             \* the Project collection of the document store
  Skill,               \* the Skill collection
  Settings,            \* the value of the currentlyLearning setting, if any
  issued,              \* signed tokens that clients hold
  inflight,            \* document-store handlers waiting for the database
  edits,               \* successful project edits so far (bounds the run)
  maxAssigned,         \* history: greatest project id assigned so far
  stable,              \* history: nothing changed since the last import commit
  last,                \* the last response sent (or event that happened)
  auth,                \* AuthProvider of the browser: state, sessionStorage, calls
  dash                 \* Dashboard of the browser: project forms and list

catalog ==
  <<projectsFromGithub, techs, nextId, dashboardProjects, dashboardSkills,
    currentlyLearning>>
memVars ==
  <<upstream, listening, imp, projectsFromGithub, techs, nextId,
    dashboardProjects, dashboardSkills, currentlyLearning, activeSessions,
    timers, stable>>
docVars == <<isReady, Project, Skill, Settings, issued, inflight>>
clientVars == <<auth, dash>>
vars == <<variant, now, edits, maxAssigned, last, memVars, docVars, clientVars>>


\* ------------------------------------------------------- responses, input

\* The Authorization header: absent, or a credential after "Bearer ".
NoHeader == [present |-> FALSE, cred |-> Undefined]
Bearer(t) == [present |-> TRUE, cred |-> t]

\* req.headers.authorization?.replace("Bearer ", ""): undefined without the
\* header, else what follows the scheme.
ExtractToken(h) == IF h.present THEN h.cred ELSE Undefined

\* Token strings of the in-memory strategy: random part, Date.now() part.
MemoryTokens == (1..NumRand) \X (0..MaxTime)

\* Headers a client of the in-memory server can send.
MemoryHeaders ==
  {NoHeader, Bearer(EmptyString)} \cup {Bearer(t) : t \in MemoryTokens}

\* Of these, the ones that differ while the clock stands at 0 and
\* Math.random() draws 1: the token login issues then, no header, and a
\* token login cannot issue.
AdminHeaders == {Bearer(<<1, 0>>)}
CatalogHeaders == AdminHeaders \cup {NoHeader, Bearer(<<1, 1>>)}

\* console.error("Failed to fetch GitHub repositories:", error); the error
\* names the page whose request failed.
NoLog == [msg |-> "none", page |-> 0]
FetchError(page) == [msg |-> "Failed to fetch GitHub repositories:", page |-> page]

\* What a handler answered: status code and JSON body; log is what it wrote
\* with console.error.
Resp(op, status, body) ==
  [op |-> op, status |-> status, body |-> body, log |-> NoLog]
Event(op) == Resp(op, 0, <<>>)

Unauthorized(op) ==
  Resp(op, 401, [success |-> FALSE, message |-> "Unauthorized"])

NotFound(op) ==
  Resp(op, 404, [success |-> FALSE, message |-> "Project not found"])

\* ----------------------------------------------- in-memory token strategy

\* generateToken(): Math.random() part, then Date.now() part.
generateToken(r) == <<r, now>>

\* When the setTimeout callback of a token is due.
Due(t) == t[2] + TokenTTL

isValidToken(token) == token \in activeSessions

\* requireAuth that only looks whether a token was sent.
requireAuth_AnyToken(h) == Truthy(ExtractToken(h))

requireAuth(h) ==
  LET token == ExtractToken(h)
  IN  Truthy(token) /\ isValidToken(token)

IdleImport ==
  [pc |-> "idle", page |-> 0, repos |-> <<>>, by |-> "none", raced |-> FALSE]

\* History: the greater of two ids, NegInfinity being below every number.
MaxOf(a, b) == IF b = NegInfinity \/ a >= b THEN a ELSE b

\* ------------------------------------------------------------------ Init

\* The in-memory catalog before loadProjects has run.
MemoryFresh ==
  /\ listening = FALSE
  /\ projectsFromGithub = <<>>
  /\ techs = <<"all">>
  /\ nextId = 1
  /\ dashboardProjects = <<>>
  /\ dashboardSkills = DefaultSkills
  /\ currentlyLearning = DefaultLearning
  /\ activeSessions = {}
  /\ timers = {}
  /\ stable = FALSE

IdleHandler == [op |-> "none"]

\* The Settings document with key "currentlyLearning": absent, or its value.
NoSetting == [present |-> FALSE, value |-> <<>>]
Setting(v) == [present |-> TRUE, value |-> v]

\* The document store of a fresh installation, before the server is ready.
DocumentFresh ==
  /\ isReady = FALSE
  /\ Project = <<>>
  /\ Skill = <<>>
  /\ Settings = NoSetting
  /\ issued = {}
  /\ inflight = [k \in 1..2 |-> IdleHandler]

\* ---------------------------------------------------- browser, at its start

\* A token variable of the browser that holds null.
NullToken == <<>>

\* AuthProvider before its mount effect ran, with saved in sessionStorage.
ProviderFresh(saved) ==
  [isAuthenticated |-> FALSE, token |-> NullToken, loading |-> TRUE,
   storage |-> saved, header |-> NullToken, mounted |-> FALSE, calls |-> {}]

\* A JavaScript string, as its characters, and an array, as its items.
Str(chars) == [kind |-> "string", chars |-> chars]
Arr(items) == [kind |-> "array", items |-> items]

NoRequest == [method |-> "none"]

\* Dashboard after fetchDashboardData stored projects; text is what the user
\* is going to type into a technologies field.
DashboardFresh(projects, text) ==
  [text |-> text, projects |-> projects, newTech |-> <<>>,
   editing |-> [id |-> 0], input |-> Str(<<>>), touched |-> FALSE,
   sent |-> NoRequest]

\* The server before it starts.
ServerInit ==
  /\ now = 0
  /\ edits = 0
  /\ maxAssigned = 0
  /\ last = Event("start")
  /\ MemoryFresh
  /\ DocumentFresh
  /\ \/ /\ variant = "memory"
        /\ upstream \in UpstreamLists
        \* index.ts:460 loadProjects().then(() => app.listen(...))
        /\ imp = [pc |-> "fetching", page |-> 1, repos |-> <<>>,
                  by |-> "startup", raced |-> FALSE]
     \/ /\ variant = "document"
        /\ upstream = <<>>
        /\ imp = IdleImport

\* The server before it starts, and no browser session in progress.
Init ==
  /\ ServerInit
  /\ auth = ProviderFresh(NullToken)
  /\ dash = DashboardFresh(<<>>, <<>>)

\* ---------------------------------------------------------- auth routes

\* A login that compares the username only.
Login_UsernameOnly(u, p, r) ==
  /\ variant = "memory" /\ listening
  /\ IF u = "admin"
     THEN LET token == generateToken(r)
          IN  /\ activeSessions' = activeSessions \cup {token}
              /\ timers' = timers \cup {token}
              /\ last' = Resp("login", 200,
                              [success |-> TRUE, token |-> token])
     ELSE /\ UNCHANGED <<activeSessions, timers>>
          /\ last' = Resp("login", 401,
                          [success |-> FALSE, message |-> "Invalid credentials"])
  /\ UNCHANGED <<docVars, edits, variant, clientVars, now, upstream, listening, imp, catalog,
                 maxAssigned, stable>>

\* POST /api/auth/login
Login(u, p, r) ==
  /\ variant = "memory" /\ listening
  /\ IF u = "admin" /\ p = "password"
     THEN LET token == generateToken(r)
          IN  /\ activeSessions' = activeSessions \cup {token}
              /\ timers' = timers \cup {token}
              /\ last' = Resp("login", 200,
                              [success |-> TRUE, token |-> token])
     ELSE /\ UNCHANGED <<activeSessions, timers>>
          /\ last' = Resp("login", 401,
                          [success |-> FALSE, message |-> "Invalid credentials"])
  /\ UNCHANGED <<docVars, edits, variant, clientVars, now, upstream, listening, imp, catalog,
                 maxAssigned, stable>>

\* An expiry callback that clears the whole session set.
ExpireSession_ClearsAll(t) ==
  /\ variant = "memory"
  /\ t \in timers /\ now >= Due(t)
  /\ activeSessions' = {}
  /\ timers' = timers \ {t}
  /\ last' = Event("expire")
  /\ UNCHANGED <<docVars, edits, variant, clientVars, now, upstream, listening, imp, catalog,
                 maxAssigned, stable>>

\* The setTimeout callback of login: activeSessions.delete(token).
ExpireSession(t) ==
  /\ variant = "memory"
  /\ t \in timers /\ now >= Due(t)
  /\ activeSessions' = activeSessions \ {t}
  /\ timers' = timers \ {t}
  /\ last' = Event("expire")
  /\ UNCHANGED <<docVars, edits, variant, clientVars, now, upstream, listening, imp, catalog,
                 maxAssigned, stable>>

\* A logout that answers without touching the session set.
Logout_KeepsSession(h) ==
  /\ variant = "memory" /\ listening
  /\ last' = Resp("logout", 200, [success |-> TRUE])
  /\ UNCHANGED <<docVars, edits, variant, clientVars, now, upstream, listening, imp,
                 catalog, activeSessions, timers, maxAssigned, stable>>

\* POST /api/auth/logout
Logout(h) ==
  /\ variant = "memory" /\ listening
  /\ LET token == ExtractToken(h)
     IN  activeSessions' =
           IF Truthy(token) THEN activeSessions \ {token} ELSE activeSessions
  /\ last' = Resp("logout", 200, [success |-> TRUE])
  /\ UNCHANGED <<docVars, edits, variant, clientVars, now, upstream, listening, imp, catalog, timers,
                 maxAssigned, stable>>

\* GET /api/auth/verify
Verify(h) ==
  /\ variant = "memory" /\ listening
  /\ LET token == ExtractToken(h)
     IN  last' = Resp("verify", 200,
                      [success |-> TRUE,
                       valid |-> Truthy(token) /\ isValidToken(token)])
  /\ UNCHANGED <<docVars, edits, variant, clientVars, now, upstream, listening, imp, catalog,
                 activeSessions, timers, maxAssigned, stable>>

\* Time passes. A due setTimeout callback runs before the clock moves on.
Tick ==
  /\ now < MaxTime
  /\ \A t \in timers : now < Due(t)
  /\ now' = now + 1
  /\ last' = Event("tick")
  /\ UNCHANGED <<docVars, edits, variant, clientVars, upstream, listening, imp, catalog, activeSessions,
                 timers, maxAssigned, stable>>


\* ------------------------------------------------ GitHub import (memory)

\* The page the external API answers for ?per_page=PerPage&page=page.
PageOf(list, page) ==
  SubSeq(list, (page - 1) * PerPage + 1, Min(page * PerPage, Len(list)))

\* The newProject literal of loadProjects.
toProject(repo, id) ==
  [id |-> id,
   title |-> repo.name,
   description |-> repo.description,
   tech |-> IF TruthyString(repo.language) THEN <<repo.language>> ELSE <<>>,
   sourceUrl |-> repo.html_url,
   featured |-> FALSE]

\* techs.includes(x)
Includes(s, x) == \E i \in DOMAIN s : s[i] = x

RECURSIVE addTechs_NoCheck(_, _)
\* A forEach round that pushes the language without looking it up first.
addTechs_NoCheck(ts, repos) ==
  IF repos = <<>> THEN ts
  ELSE LET lang == Head(repos).language
       IN  addTechs_NoCheck(IF TruthyString(lang)
                            THEN Append(ts, lang) ELSE ts,
                            Tail(repos))

RECURSIVE addTechs(_, _)
\* The techs.push of each forEach round, in order.
addTechs(ts, repos) ==
  IF repos = <<>> THEN ts
  ELSE LET lang == Head(repos).language
       IN  addTechs(IF TruthyString(lang) /\ ~Includes(ts, lang)
                    THEN Append(ts, lang) ELSE ts,
                    Tail(repos))

\* projectsFromGithub after the forEach of loadProjects over repos.
pushAll(repos) ==
  projectsFromGithub \o
    [i \in 1..Len(repos) |-> toProject(repos[i], nextId + i - 1)]

\* The body of loadProjects after fetchAllRepos has returned repos.
loadProjectsCommit(repos) ==
  /\ projectsFromGithub' = pushAll(repos)
  /\ techs' = addTechs(techs, repos)
  /\ nextId' = nextId + Len(repos)
  /\ dashboardProjects' = pushAll(repos)
  /\ UNCHANGED <<dashboardSkills, currentlyLearning>>

\* What the handler (or the start-up code) does once loadProjects returned:
\* both the normal return and the caught error end here.
afterLoad(log) ==
  /\ imp' = IdleImport
  /\ IF imp.by = "startup"
     THEN /\ listening' = TRUE
          /\ last' = [Event("listen") EXCEPT !.log = log]
     ELSE /\ UNCHANGED listening
          /\ last' = [Resp("refresh", 200,
                           [success |-> TRUE,
                            message |-> "GitHub data refreshed",
                            projects |-> projectsFromGithub'])
                      EXCEPT !.log = log]

\* A paging loop that goes on until a page comes back empty.
FetchPageOk_UntilEmpty ==
  /\ variant = "memory" /\ imp.pc = "fetching"
  /\ LET data == PageOf(upstream, imp.page)
         repos == imp.repos \o data
     IN  IF Len(data) = 0
         THEN /\ Len(projectsFromGithub) + Len(repos) <= MaxProjects
              /\ loadProjectsCommit(repos)
              /\ afterLoad(NoLog)
              /\ maxAssigned' =
                   IF repos = <<>> THEN maxAssigned
                   ELSE MaxOf(maxAssigned, nextId + Len(repos) - 1)
              /\ stable' = (repos = upstream)
         ELSE /\ imp' = [imp EXCEPT !.page = @ + 1, !.repos = repos]
              /\ last' = Event("page")
              /\ UNCHANGED <<listening, catalog, maxAssigned, stable>>
  /\ UNCHANGED <<docVars, edits, variant, clientVars, now, upstream, activeSessions, timers>>

\* axios.get resolves with one page; fetchAllRepos goes on or returns, and
\* then loadProjects runs to its end.
FetchPageOk ==
  /\ variant = "memory" /\ imp.pc = "fetching"
  /\ LET data == PageOf(upstream, imp.page)
         repos == imp.repos \o data
     IN  IF Len(data) < PerPage
         THEN /\ Len(projectsFromGithub) + Len(repos) <= MaxProjects
              /\ loadProjectsCommit(repos)
              /\ afterLoad(NoLog)
              /\ maxAssigned' =
                   IF repos = <<>> THEN maxAssigned
                   ELSE MaxOf(maxAssigned, nextId + Len(repos) - 1)
              /\ stable' = (repos = upstream)
         ELSE /\ imp' = [imp EXCEPT !.page = @ + 1, !.repos = repos]
              /\ last' = Event("page")
              /\ UNCHANGED <<listening, catalog, maxAssigned, stable>>
  /\ UNCHANGED <<docVars, edits, variant, clientVars, now, upstream, activeSessions, timers>>

\* A failure that keeps what the earlier pages delivered.
FetchPageFail_CommitsFetched ==
  /\ variant = "memory" /\ imp.pc = "fetching"
  /\ Len(projectsFromGithub) + Len(imp.repos) <= MaxProjects
  /\ loadProjectsCommit(imp.repos)
  /\ UNCHANGED <<docVars, edits, variant, clientVars, now, upstream, activeSessions,
                 timers, maxAssigned, stable>>
  /\ afterLoad(FetchError(imp.page))

\* axios.get rejects: fetchAllRepos throws, the catch of loadProjects logs.
FetchPageFail ==
  /\ variant = "memory" /\ imp.pc = "fetching"
  /\ UNCHANGED <<docVars, edits, variant, clientVars, now, upstream, catalog, activeSessions, timers,
                 maxAssigned, stable>>
  /\ afterLoad(FetchError(imp.page))

\* POST /api/dashboard/refresh-github
RefreshGithub(h) ==
  /\ variant = "memory" /\ listening
  /\ IF requireAuth(h)
     THEN /\ imp.pc = "idle"
          /\ imp' = [pc |-> "fetching", page |-> 1, repos |-> <<>>,
                     by |-> "refresh", raced |-> FALSE]
          /\ last' = Event("refresh-started")
     ELSE /\ UNCHANGED imp
          /\ last' = Unauthorized("refresh")
  /\ UNCHANGED <<docVars, edits, variant, clientVars, now, upstream, listening, catalog, activeSessions,
                 timers, maxAssigned, stable>>

\* The external account gains, loses or edits repositories.
UpstreamChange ==
  /\ variant = "memory"
  /\ \E u \in UpstreamLists : u # upstream /\ upstream' = u
  /\ stable' = FALSE
  /\ last' = Event("upstream")
  /\ UNCHANGED <<docVars, edits, variant, clientVars, now, listening, imp, catalog, activeSessions,
                 timers, maxAssigned>>


\* ------------------------------------------------ catalog routes (memory)

\* GET /api/data
PublicData ==
  /\ variant = "memory" /\ listening
  /\ last' = Resp("data", 200,
                  [currentlyLearning |-> currentlyLearning,
                   projects |-> dashboardProjects,
                   skills |-> dashboardSkills,
                   techs |-> techs])
  /\ UNCHANGED <<docVars, edits, variant, clientVars, now, upstream, listening, imp, catalog,
                 activeSessions, timers, maxAssigned, stable>>

\* p.featured of the filter: a missing field is undefined, which is falsy.
IsFeatured(p) == "featured" \in DOMAIN p /\ p.featured

\* GET /api/dashboard/data
DashboardData(h) ==
  /\ variant = "memory" /\ listening
  /\ last' =
       IF requireAuth(h)
       THEN Resp("dashboard", 200,
                 [projects |-> dashboardProjects,
                  skills |-> dashboardSkills,
                  currentlyLearning |-> currentlyLearning,
                  stats |->
                    [totalProjects |-> Len(dashboardProjects),
                     featuredProjects |->
                       Cardinality({i \in DOMAIN dashboardProjects :
                                      IsFeatured(dashboardProjects[i])}),
                     totalSkills |-> Len(dashboardSkills),
                     githubRepos |-> Len(projectsFromGithub)]])
       ELSE Unauthorized("dashboard")
  /\ UNCHANGED <<docVars, edits, variant, clientVars, now, upstream, listening, imp, catalog,
                 activeSessions, timers, maxAssigned, stable>>

\* An update that stores the body in place of the record.
mergeProject_BodyOnly(old, body) == Spread([id |-> old.id], body)

\* The record PUT /api/dashboard/projects/:id stores at projectIndex.
mergeProject(old, body) == Spread(old, body)

\* History: a project edit that lands while an import is suspended.
Raced == [imp EXCEPT !.raced = (imp.pc = "fetching")]

\* PUT /api/dashboard/projects/:id
UpdateProject(h, id, body) ==
  /\ variant = "memory" /\ listening
  /\ IF ~requireAuth(h)
     THEN /\ last' = Unauthorized("update")
          /\ UNCHANGED <<dashboardProjects, stable, edits, imp>>
     ELSE LET projectIndex == FindIndex(dashboardProjects, id)
          IN  IF projectIndex = 0
              THEN /\ last' = NotFound("update")
                   /\ UNCHANGED <<dashboardProjects, stable, edits, imp>>
              ELSE LET merged ==
                         mergeProject(dashboardProjects[projectIndex], body)
                   IN  /\ edits < MaxEdits /\ edits' = edits + 1
                       /\ dashboardProjects' =
                            [dashboardProjects EXCEPT ![projectIndex] = merged]
                       /\ stable' = FALSE
                       /\ imp' = Raced
                       /\ last' = Resp("update", 200,
                                       [success |-> TRUE, project |-> merged])
  /\ UNCHANGED <<docVars, variant, clientVars, now, upstream, listening,
                 projectsFromGithub, techs, nextId, dashboardSkills,
                 currentlyLearning, activeSessions, timers, maxAssigned>>

\* The newProject literal of POST /api/dashboard/projects.
newProjectOf(projects, body) ==
  Spread([id |-> PlusOne(MathMax(Ids(projects)))], body)

\* POST /api/dashboard/projects
CreateProject(h, body) ==
  /\ variant = "memory" /\ listening
  /\ IF ~requireAuth(h)
     THEN /\ last' = Unauthorized("create")
          /\ UNCHANGED <<dashboardProjects, maxAssigned, stable, edits, imp>>
     ELSE LET newProject == newProjectOf(dashboardProjects, body)
          IN  /\ Len(dashboardProjects) < MaxProjects
              /\ edits < MaxEdits /\ edits' = edits + 1
              /\ dashboardProjects' = Append(dashboardProjects, newProject)
              /\ maxAssigned' = MaxOf(maxAssigned, newProject.id)
              /\ stable' = FALSE
              /\ imp' = Raced
              /\ last' = Resp("create", 200,
                              [success |-> TRUE, project |-> newProject])
  /\ UNCHANGED <<docVars, variant, clientVars, now, upstream, listening,
                 projectsFromGithub, techs, nextId, dashboardSkills,
                 currentlyLearning, activeSessions, timers>>

\* DELETE /api/dashboard/projects/:id
DeleteProject(h, id) ==
  /\ variant = "memory" /\ listening
  /\ IF ~requireAuth(h)
     THEN /\ last' = Unauthorized("delete")
          /\ UNCHANGED <<dashboardProjects, stable, edits, imp>>
     ELSE LET projectIndex == FindIndex(dashboardProjects, id)
          IN  IF projectIndex = 0
              THEN /\ last' = NotFound("delete")
                   /\ UNCHANGED <<dashboardProjects, stable, edits, imp>>
              ELSE /\ edits < MaxEdits /\ edits' = edits + 1
                   /\ dashboardProjects' = Splice(dashboardProjects, projectIndex)
                   /\ stable' = FALSE
                   /\ imp' = Raced
                   /\ last' = Resp("delete", 200, [success |-> TRUE])
  /\ UNCHANGED <<docVars, variant, clientVars, now, upstream, listening,
                 projectsFromGithub, techs, nextId, dashboardSkills,
                 currentlyLearning, activeSessions, timers, maxAssigned>>

\* PUT /api/dashboard/skills
ReplaceSkills(h, skills) ==
  /\ variant = "memory" /\ listening
  /\ IF ~requireAuth(h)
     THEN /\ last' = Unauthorized("skills")
          /\ UNCHANGED dashboardSkills
     ELSE /\ dashboardSkills' = skills
          /\ last' = Resp("skills", 200,
                          [success |-> TRUE, skills |-> skills])
  /\ UNCHANGED <<docVars, edits, variant, clientVars, now, upstream, listening, imp, projectsFromGithub,
                 techs, nextId, dashboardProjects, currentlyLearning,
                 activeSessions, timers, maxAssigned, stable>>

\* PUT /api/dashboard/learning
ReplaceLearning(h, list) ==
  /\ variant = "memory" /\ listening
  /\ IF ~requireAuth(h)
     THEN /\ last' = Unauthorized("learning")
          /\ UNCHANGED currentlyLearning
     ELSE /\ currentlyLearning' = list
          /\ last' = Resp("learning", 200,
                          [success |-> TRUE, currentlyLearning |-> list])
  /\ UNCHANGED <<docVars, edits, variant, clientVars, now, upstream, listening, imp, projectsFromGithub,
                 techs, nextId, dashboardProjects, dashboardSkills,
                 activeSessions, timers, maxAssigned, stable>>

\* ===================================================== document store
\* src/unnamed/part_001. A handler that awaits the database is suspended
\* between its queries: inflight[k] holds where it is and its locals.

JWT_SECRET == "your-secret-key"

\* jwt.sign({ authenticated: true }, JWT_SECRET, { expiresIn: "24h" }):
\* issue time, expiry and the key the signature was made with.
signToken_TwoDays == <<now, now + 2 * TokenTTL, JWT_SECRET>>
signToken == <<now, now + TokenTTL, JWT_SECRET>>

\* A token nobody signed with the server's key.
ForgedToken == <<0, MaxTime + TokenTTL + 1, "another-key">>

\* jwt.verify(token, JWT_SECRET) does not throw: the signature is made with
\* the key and the expiry lies ahead.
verifyToken(token) ==
  /\ Len(token) = 3
  /\ token[3] = JWT_SECRET
  /\ now < token[2]

requireAuthDoc(h) ==
  LET token == ExtractToken(h)
  IN  Truthy(token) /\ verifyToken(token)

\* The 401 answers of requireAuth in part_001.
UnauthorizedDoc(op, h) ==
  Resp(op, 401,
       [success |-> FALSE,
        message |-> IF Truthy(ExtractToken(h)) THEN "Invalid token"
                    ELSE "No token provided"])

InternalError(op) ==
  [Resp(op, 500, [success |-> FALSE, message |-> "Internal server error"])
   EXCEPT !.log = [msg |-> "Error", page |-> 0]]

\* Headers a client of the document-store server can send.
DocHeaders ==
  {NoHeader, Bearer(EmptyString), Bearer(ForgedToken)}
    \cup {Bearer(t) : t \in issued}

Busy(k) == inflight[k].op # "none"
Resume(k, rec) == inflight' = [inflight EXCEPT ![k] = rec]
Done(k) == inflight' = [inflight EXCEPT ![k] = IdleHandler]

\* app.listen callback: initializeDefaultData(), then isReady = true.
StartDocument ==
  /\ variant = "document" /\ ~isReady
  /\ Skill' = IF Len(Skill) = 0 THEN DefaultSkills ELSE Skill
  /\ Settings' = IF ~Settings.present THEN Setting(DefaultLearning) ELSE Settings
  /\ isReady' = TRUE
  /\ last' = Event("ready")
  /\ UNCHANGED <<memVars, variant, clientVars, now, edits, maxAssigned, Project, issued,
                 inflight>>

\* Routes of part_001 that a request can name.
DocRoutes ==
  {"login", "logout", "verify", "data", "dashboard", "update", "create",
   "delete", "skills", "learning"}

\* The readiness middleware while isReady is false: Retry-After is set and
\* the request is answered 503 before it reaches any route.
DocNotReady(op) ==
  /\ variant = "document" /\ ~isReady
  /\ last' = Spread(Resp(op, 503,
                         [success |-> FALSE,
                          message |->
                            "Server is initializing, please try again later."]),
                    [retryAfter |-> "10"])
  /\ UNCHANGED <<memVars, docVars, variant, clientVars, now, edits, maxAssigned>>

\* GET /favicon.ico, registered before the readiness middleware: the file is
\* sent whatever isReady is.
Favicon ==
  /\ variant = "document"
  /\ last' = Resp("favicon", 200, [file |-> "frontend/favicon.jpg"])
  /\ UNCHANGED <<memVars, docVars, variant, clientVars, now, edits, maxAssigned>>

\* The awaits of initializeDefaultData at which the database can throw.
InitStages == {"countDocuments", "insertMany", "findOne", "create"}

\* app.listen callback when initializeDefaultData caught an error at stage:
\* what it wrote before stays, it returns, and isReady = true follows.
StartDocumentInitFails(stage) ==
  /\ variant = "document" /\ ~isReady
  /\ Skill' = IF stage \in {"findOne", "create"} /\ Len(Skill) = 0
              THEN DefaultSkills ELSE Skill
  /\ UNCHANGED Settings
  /\ isReady' = TRUE
  /\ last' = [Event("ready") EXCEPT
                !.log = [msg |-> "Error initializing default data:",
                         stage |-> stage]]
  /\ UNCHANGED <<memVars, variant, clientVars, now, edits, maxAssigned, Project, issued,
                 inflight>>

\* A login route that is mounted before the readiness middleware.
DocLogin_BeforeReady(u, p) ==
  /\ variant = "document"
  /\ IF u = "admin" /\ p = "password"
     THEN /\ issued' = issued \cup {signToken}
          /\ last' = Resp("login", 200, [success |-> TRUE, token |-> signToken])
     ELSE /\ UNCHANGED issued
          /\ last' = Resp("login", 401,
                          [success |-> FALSE, message |-> "Invalid credentials"])
  /\ UNCHANGED <<memVars, variant, clientVars, now, edits, maxAssigned, isReady, Project,
                 Skill, Settings, inflight>>

\* POST /api/auth/login (part_001)
DocLogin(u, p) ==
  /\ variant = "document" /\ isReady
  /\ IF u = "admin" /\ p = "password"
     THEN /\ issued' = issued \cup {signToken}
          /\ last' = Resp("login", 200, [success |-> TRUE, token |-> signToken])
     ELSE /\ UNCHANGED issued
          /\ last' = Resp("login", 401,
                          [success |-> FALSE, message |-> "Invalid credentials"])
  /\ UNCHANGED <<memVars, variant, clientVars, now, edits, maxAssigned, isReady, Project,
                 Skill, Settings, inflight>>

\* Project.findOne({ id }): the index of the document, 0 for null.
findOne(coll, id) == FindIndex(coll, id)

\* A collection whose id field carries no unique index.
DuplicateKey_NoIndex(coll, except, doc) == FALSE

\* The unique index on id refuses a second document with the id.
DuplicateKey(coll, except, doc) ==
  \E j \in DOMAIN coll : j # except /\ coll[j].id = doc.id

\* PUT /api/dashboard/projects/:id (part_001): findOneAndUpdate.
DocUpdateProject(h, id, body) ==
  /\ variant = "document" /\ isReady
  /\ IF ~requireAuthDoc(h)
     THEN /\ last' = UnauthorizedDoc("update", h)
          /\ UNCHANGED <<Project, edits>>
     ELSE LET i == findOne(Project, id)
          IN  IF i = 0
              THEN /\ last' = NotFound("update")
                   /\ UNCHANGED <<Project, edits>>
              ELSE LET updated == Spread(Project[i], body)
                   IN  IF DuplicateKey(Project, i, updated)
                       THEN /\ last' = InternalError("update")
                            /\ UNCHANGED <<Project, edits>>
                       ELSE /\ edits < MaxEdits /\ edits' = edits + 1
                            /\ Project' = [Project EXCEPT ![i] = updated]
                            /\ last' = Resp("update", 200,
                                            [success |-> TRUE,
                                             project |-> updated])
  /\ UNCHANGED <<memVars, variant, clientVars, now, maxAssigned, isReady, Skill, Settings,
                 issued, inflight>>

\* DELETE /api/dashboard/projects/:id (part_001): findOneAndDelete.
DocDeleteProject(h, id) ==
  /\ variant = "document" /\ isReady
  /\ IF ~requireAuthDoc(h)
     THEN /\ last' = UnauthorizedDoc("delete", h)
          /\ UNCHANGED <<Project, edits>>
     ELSE LET i == findOne(Project, id)
          IN  IF i = 0
              THEN /\ last' = NotFound("delete")
                   /\ UNCHANGED <<Project, edits>>
              ELSE /\ edits < MaxEdits /\ edits' = edits + 1
                   /\ Project' = Splice(Project, i)
                   /\ last' = Resp("delete", 200, [success |-> TRUE])
  /\ UNCHANGED <<memVars, variant, clientVars, now, maxAssigned, isReady, Skill, Settings,
                 issued, inflight>>

\* getNextProjectId: Project.findOne().sort({ id: -1 }), plus one.
getNextProjectId(coll) ==
  IF coll = <<>> THEN 1 ELSE MathMax(Ids(coll)) + 1

\* new Project({ id: nextId, ...req.body }) with the defaults of projectSchema.
newDocument(nextProjectId, body) ==
  Spread([description |-> Null, tech |-> <<>>, featured |-> FALSE],
         Spread([id |-> nextProjectId], body))

\* The creates that have read their id and not yet saved.
PendingCreates ==
  Cardinality({k \in DOMAIN inflight :
                 inflight[k].op = "create" /\ inflight[k].pc = "save"})

\* POST /api/dashboard/projects (part_001), up to the await of save().
DocCreateRead(k, h, body) ==
  /\ variant = "document" /\ isReady /\ ~Busy(k)
  /\ IF ~requireAuthDoc(h)
     THEN /\ last' = UnauthorizedDoc("create", h)
          /\ UNCHANGED inflight
     ELSE /\ edits + PendingCreates < MaxEdits
          /\ Len(Project) + PendingCreates < MaxProjects
          /\ Resume(k, [op |-> "create", pc |-> "save",
                        nextId |-> getNextProjectId(Project), body |-> body])
          /\ last' = Event("create-read")
  /\ UNCHANGED <<memVars, variant, clientVars, now, edits, maxAssigned, isReady, Project,
                 Skill, Settings, issued>>

\* ... newProject.save(): validation (title is required), then the insert.
DocCreateSave(k) ==
  /\ variant = "document" /\ inflight[k].op = "create" /\ inflight[k].pc = "save"
  /\ LET doc == newDocument(inflight[k].nextId, inflight[k].body)
     IN  IF "title" \notin DOMAIN doc \/ DuplicateKey(Project, 0, doc)
         THEN /\ Done(k)
              /\ last' = InternalError("create")
              /\ UNCHANGED <<Project, edits, maxAssigned>>
         ELSE /\ Project' = Append(Project, doc)
              /\ edits' = edits + 1
              /\ maxAssigned' = MaxOf(maxAssigned, doc.id)
              /\ Resume(k, [inflight[k] EXCEPT !.pc = "findOne"])
              /\ last' = Event("create-saved")
  /\ UNCHANGED <<memVars, variant, clientVars, now, isReady, Skill, Settings, issued>>

\* ... Project.findOne({ id: nextId }) and the answer.
DocCreateRespond(k) ==
  /\ variant = "document" /\ inflight[k].op = "create" /\ inflight[k].pc = "findOne"
  /\ LET i == findOne(Project, inflight[k].nextId)
     IN  last' = Resp("create", 200,
                      [success |-> TRUE,
                       project |-> IF i = 0 THEN [id |-> Null] ELSE Project[i]])
  /\ Done(k)
  /\ UNCHANGED <<memVars, variant, clientVars, now, edits, maxAssigned, isReady, Project,
                 Skill, Settings, issued>>

\* A logout that forgets the token it was sent.
DocLogout_ForgetsToken(h) ==
  /\ variant = "document" /\ isReady
  /\ issued' = issued \ {ExtractToken(h)}
  /\ last' = Resp("logout", 200, [success |-> TRUE])
  /\ UNCHANGED <<memVars, variant, clientVars, now, edits, maxAssigned, isReady, Project,
                 Skill, Settings, inflight>>

\* POST /api/auth/logout (part_001): the token is not looked at.
DocLogout(h) ==
  /\ variant = "document" /\ isReady
  /\ last' = Resp("logout", 200, [success |-> TRUE])
  /\ UNCHANGED <<memVars, docVars, variant, clientVars, now, edits, maxAssigned>>

\* GET /api/auth/verify (part_001)
DocVerify(h) ==
  /\ variant = "document" /\ isReady
  /\ LET token == ExtractToken(h)
     IN  last' = Resp("verify", 200,
                      [success |-> TRUE,
                       valid |-> Truthy(token) /\ verifyToken(token)])
  /\ UNCHANGED <<memVars, docVars, variant, clientVars, now, edits, maxAssigned>>

\* GET /api/dashboard/data and GET /api/data (part_001) send three queries
\* at once (Promise.all); each is answered on its own.
DocReadStart(k, route, h) ==
  /\ variant = "document" /\ isReady /\ ~Busy(k)
  /\ IF route = "dashboard" /\ ~requireAuthDoc(h)
     THEN /\ last' = UnauthorizedDoc("dashboard", h)
          /\ UNCHANGED inflight
     ELSE /\ Resume(k, [op |-> "read", route |-> route, got |-> {},
                        projects |-> <<>>, skills |-> <<>>,
                        currentlyLearning |-> <<>>])
          /\ last' = Event("read-started")
  /\ UNCHANGED <<memVars, variant, clientVars, now, edits, maxAssigned, isReady, Project,
                 Skill, Settings, issued>>

ReadParts == {"projects", "skills", "currentlyLearning"}

\* currentlyLearningSetting?.value || []
LearningValue == IF Settings.present THEN Settings.value ELSE <<>>

\* The JSON body of the two read routes.
readBody(r) ==
  IF r.route = "data"
  THEN [currentlyLearning |-> r.currentlyLearning, projects |-> r.projects,
        skills |-> r.skills, techs |-> <<"all">>]
  ELSE [projects |-> r.projects, skills |-> r.skills,
        currentlyLearning |-> r.currentlyLearning,
        stats |->
          [totalProjects |-> Len(r.projects),
           featuredProjects |->
             Cardinality({i \in DOMAIN r.projects : IsFeatured(r.projects[i])}),
           totalSkills |-> Len(r.skills)]]

\* One of the three queries is answered; the last answer sends the response.
DocReadOne(k, part) ==
  /\ variant = "document" /\ inflight[k].op = "read"
  /\ part \in ReadParts \ inflight[k].got
  /\ LET r == [inflight[k] EXCEPT
                 !.got = @ \cup {part},
                 !.projects = IF part = "projects" THEN Project ELSE @,
                 !.skills = IF part = "skills" THEN Skill ELSE @,
                 !.currentlyLearning =
                    IF part = "currentlyLearning" THEN LearningValue ELSE @]
     IN  IF r.got = ReadParts
         THEN /\ Done(k)
              /\ last' = Resp(r.route, 200, readBody(r))
         ELSE /\ Resume(k, r)
              /\ last' = Event("read-part")
  /\ UNCHANGED <<memVars, variant, clientVars, now, edits, maxAssigned, isReady, Project,
                 Skill, Settings, issued>>

\* skillSchema: level within [0, 100], category one of the enum.
Categories == {"frontend", "backend", "tools", "database", "other"}
validSkill(sk) ==
  /\ "name" \in DOMAIN sk /\ "level" \in DOMAIN sk /\ "category" \in DOMAIN sk
  /\ sk.level >= 0 /\ sk.level <= 100
  /\ sk.category \in Categories

\* PUT /api/dashboard/skills (part_001), up to the end of deleteMany({});
\* before is history: the collection the request found.
DocSkillsDelete(k, h, skills) ==
  /\ variant = "document" /\ isReady /\ ~Busy(k)
  /\ IF ~requireAuthDoc(h)
     THEN /\ last' = UnauthorizedDoc("skills", h)
          /\ UNCHANGED <<inflight, Skill>>
     ELSE /\ Skill' = <<>>
          /\ Resume(k, [op |-> "skills", pc |-> "insertMany", skills |-> skills,
                        before |-> Skill])
          /\ last' = Event("skills-deleted")
  /\ UNCHANGED <<memVars, variant, clientVars, now, edits, maxAssigned, isReady, Project,
                 Settings, issued>>

\* ... insertMany(req.body.skills): every document is validated first.
DocSkillsInsert(k) ==
  /\ variant = "document"
  /\ inflight[k].op = "skills" /\ inflight[k].pc = "insertMany"
  /\ IF \A i \in DOMAIN inflight[k].skills : validSkill(inflight[k].skills[i])
     THEN /\ Skill' = Skill \o inflight[k].skills
          /\ Resume(k, [inflight[k] EXCEPT !.pc = "find"])
          /\ last' = Event("skills-inserted")
     ELSE /\ UNCHANGED Skill
          /\ Done(k)
          /\ last' = InternalError("skills")
  /\ UNCHANGED <<memVars, variant, clientVars, now, edits, maxAssigned, isReady, Project,
                 Settings, issued>>

\* ... Skill.find() and the answer.
DocSkillsRespond(k) ==
  /\ variant = "document"
  /\ inflight[k].op = "skills" /\ inflight[k].pc = "find"
  /\ Done(k)
  /\ last' = Resp("skills", 200, [success |-> TRUE, skills |-> Skill])
  /\ UNCHANGED <<memVars, variant, clientVars, now, edits, maxAssigned, isReady, Project,
                 Skill, Settings, issued>>

\* PUT /api/dashboard/learning (part_001): findOneAndUpdate with upsert.
DocReplaceLearning(h, list) ==
  /\ variant = "document" /\ isReady
  /\ IF ~requireAuthDoc(h)
     THEN /\ last' = UnauthorizedDoc("learning", h)
          /\ UNCHANGED Settings
     ELSE /\ Settings' = Setting(list)
          /\ last' = Resp("learning", 200,
                          [success |-> TRUE, currentlyLearning |-> list])
  /\ UNCHANGED <<memVars, variant, clientVars, now, edits, maxAssigned, isReady, Project,
                 Skill, issued, inflight>>

\* ------------------------------------------------------------------ Next

\* The project catalog, the import and the gate in front of them; the
\* clock stands still.
Next ==
  \/ \E u \in Usernames, p \in Passwords : Login(u, p, 1)
  \/ FetchPageOk
  \/ FetchPageFail
  \/ \E h \in AdminHeaders : RefreshGithub(h)
  \/ UpstreamChange
  \/ \E h \in AdminHeaders, id \in PathIds, b \in ProjectBodies :
       UpdateProject(h, id, b)
  \/ \E h \in AdminHeaders, b \in ProjectBodies : CreateProject(h, b)
  \/ \E h \in AdminHeaders, id \in PathIds : DeleteProject(h, id)
  \/ StartDocument
  \/ \E u \in Usernames, p \in Passwords : DocLogin(u, p)
  \/ \E h \in DocHeaders, id \in PathIds, b \in ProjectBodies :
       DocUpdateProject(h, id, b)
  \/ \E h \in DocHeaders, id \in PathIds : DocDeleteProject(h, id)
  \/ \E h \in DocHeaders, b \in ProjectBodies : DocCreateRead(1, h, b)
  \/ DocCreateSave(1)
  \/ DocCreateRespond(1)

Spec == Init /\ [][Next]_vars

\* The token life cycle over time, on servers whose catalog stays empty.
\* ------------------------------------------- AuthProvider (AuthContext.tsx)

\* Tokens the browser can hold: one saved by an earlier visit, one of a login.
ClientTokens == {<<1, 0>>, <<1, 1>>}

\* The server and the Dashboard stay as they are in a step of AuthProvider.
ProviderFrame ==
  UNCHANGED <<variant, now, edits, maxAssigned, last, memVars, docVars, dash>>

Call(fn, arg) == [fn |-> fn, arg |-> arg]

\* useEffect(..., []): verifyToken(savedToken) is called, or loading ends.
ProviderMount ==
  /\ ~auth.mounted
  /\ auth' = IF auth.storage # NullToken
             THEN [auth EXCEPT !.mounted = TRUE,
                               !.calls = @ \cup {Call("verify", auth.storage)}]
             ELSE [auth EXCEPT !.mounted = TRUE, !.loading = FALSE]
  /\ ProviderFrame

\* verifyToken after its await: the answer says valid, says invalid, or the
\* request failed; finally loading ends.
VerifyResolve(c, outcome) ==
  /\ c \in auth.calls /\ c.fn = "verify"
  /\ auth' = IF outcome = "valid"
             THEN [auth EXCEPT !.token = c.arg, !.isAuthenticated = TRUE,
                               !.header = c.arg, !.loading = FALSE,
                               !.calls = @ \ {c}]
             ELSE [auth EXCEPT !.storage = NullToken, !.token = NullToken,
                               !.isAuthenticated = FALSE, !.loading = FALSE,
                               !.calls = @ \ {c}]
  /\ ProviderFrame

\* login up to its await.
LoginCall ==
  /\ auth.mounted
  /\ auth' = [auth EXCEPT !.calls = @ \cup {Call("login", NullToken)}]
  /\ ProviderFrame

\* login after its await: newToken is the token of the answer, NullToken when
\* the answer carries none or the request failed.
LoginResolve(c, newToken) ==
  /\ c \in auth.calls /\ c.fn = "login"
  /\ auth' = IF newToken # NullToken
             THEN [auth EXCEPT !.token = newToken, !.isAuthenticated = TRUE,
                               !.storage = newToken, !.header = newToken,
                               !.calls = @ \ {c}]
             ELSE [auth EXCEPT !.calls = @ \ {c}]
  /\ ProviderFrame

\* The finally block of logout.
LoggedOut(a) ==
  [a EXCEPT !.token = NullToken, !.isAuthenticated = FALSE,
            !.storage = NullToken, !.header = NullToken]

\* logout up to its await; without a token there is no request and the
\* finally block runs at once.
LogoutCall ==
  /\ auth.mounted
  /\ auth' = IF auth.token # NullToken
             THEN [auth EXCEPT !.calls = @ \cup {Call("logout", auth.token)}]
             ELSE LoggedOut(auth)
  /\ ProviderFrame

\* logout after its await, the request answered or failed.
LogoutResolve(c) ==
  /\ c \in auth.calls /\ c.fn = "logout"
  /\ auth' = LoggedOut([auth EXCEPT !.calls = @ \ {c}])
  /\ ProviderFrame

\* A request of each kind is answered or fails in the end.
VerifyAnswered ==
  \E c \in auth.calls, outcome \in {"valid", "invalid", "error"} :
    VerifyResolve(c, outcome)
LoginAnswered ==
  \E c \in auth.calls, t \in ClientTokens \cup {NullToken} : LoginResolve(c, t)
LogoutAnswered == \E c \in auth.calls : LogoutResolve(c)

\* AuthProvider of one browser tab: sessionStorage may hold a token of an
\* earlier visit; login and logout are called in any order, and every
\* request is answered or fails in the end.
InitProvider ==
  /\ ServerInit /\ variant = "memory" /\ upstream = <<>>
  /\ auth \in {ProviderFresh(t) : t \in ClientTokens \cup {NullToken}}
  /\ dash = DashboardFresh(<<>>, <<>>)

NextProvider ==
  \/ ProviderMount
  \/ \E c \in auth.calls, outcome \in {"valid", "invalid", "error"} :
       VerifyResolve(c, outcome)
  \/ LoginCall
  \/ \E c \in auth.calls, t \in ClientTokens \cup {NullToken} :
       LoginResolve(c, t)
  \/ LogoutCall
  \/ \E c \in auth.calls : LogoutResolve(c)

SpecProvider ==
  /\ InitProvider /\ [][NextProvider]_vars
  /\ WF_vars(ProviderMount) /\ WF_vars(VerifyAnswered)
  /\ WF_vars(LoginAnswered) /\ WF_vars(LogoutAnswered)

\* ----------------------------------------------------- Dashboard (App.tsx)

\* Characters the user types into a technologies field.
Alphabet == {"a", "b", ",", " "}
Inputs == UNION {[1..n -> Alphabet] : n \in 0..MaxInput}

\* Index of the first comma of s, 0 when it has none.
IndexOfComma(s) ==
  IF \E i \in DOMAIN s : s[i] = ","
  THEN CHOOSE i \in DOMAIN s : s[i] = "," /\ \A j \in 1..(i - 1) : s[j] # ","
  ELSE 0

RECURSIVE split(_)
\* s.split(",")
split(s) ==
  LET i == IndexOfComma(s)
  IN  IF i = 0 THEN <<s>>
      ELSE <<SubSeq(s, 1, i - 1)>> \o split(SubSeq(s, i + 1, Len(s)))

RECURSIVE trimStart(_)
trimStart(s) == IF s # <<>> /\ Head(s) = " " THEN trimStart(Tail(s)) ELSE s

RECURSIVE trimEnd(_)
trimEnd(s) ==
  IF s # <<>> /\ s[Len(s)] = " " THEN trimEnd(SubSeq(s, 1, Len(s) - 1)) ELSE s

\* A version of trim that leaves the whitespace at the end.
trim_StartOnly(t) == trimStart(t)

\* t.trim()
trim(t) == trimEnd(trimStart(t))

NonEmpty(t) == Len(t) > 0

\* .split(",").map((t) => t.trim()).filter((t) => t.length > 0)
techArrayOf(s) ==
  LET parts == split(s)
  IN  SelectSeq([i \in DOMAIN parts |-> trim(parts[i])], NonEmpty)

\* data.projects as GET /api/dashboard/data delivers it: tech is an array.
LoadedProjects ==
  <<[id |-> 1, title |-> "T", tech |-> Arr(<< <<"a">>, <<"b">> >>)]>>

\* The server and AuthProvider stay as they are in a step of the Dashboard.
DashboardFrame ==
  UNCHANGED <<variant, now, edits, maxAssigned, last, memVars, docVars, auth>>

NotEditing == [id |-> 0]

\* onChange of the technologies field of the new-project form.
TypeNewTech ==
  /\ dash.newTech # dash.text
  /\ dash' = [dash EXCEPT !.newTech = dash.text, !.sent = NoRequest]
  /\ DashboardFrame

\* addProject: the POST and, when it is answered (ok), the list and the form.
addProject(ok) ==
  /\ Len(dash.projects) < MaxProjects
  /\ LET techArray == IF dash.newTech # <<>> THEN techArrayOf(dash.newTech)
                      ELSE <<>>
         body == [title |-> "N", tech |-> Arr(techArray), featured |-> FALSE]
         created == Spread([id |-> Len(dash.projects) + 1], body)
     IN  dash' =
           IF ok
           THEN [dash EXCEPT
                   !.sent = [method |-> "POST", body |-> body],
                   !.projects =
                     Append(@, Spread(created, [tech |-> Str(dash.newTech)])),
                   !.newTech = <<>>]
           ELSE [dash EXCEPT !.sent = [method |-> "POST", body |-> body]]
  /\ DashboardFrame

\* The Edit button: setEditingProject(project), and the effect on
\* editingProject copies its tech into editingTechInput.
StartEdit(i) ==
  /\ i \in DOMAIN dash.projects
  /\ dash.editing # dash.projects[i]
  /\ dash' = [dash EXCEPT !.editing = dash.projects[i],
                          !.input = dash.projects[i].tech,
                          !.touched = FALSE,
                          !.sent = NoRequest]
  /\ DashboardFrame

\* onChange of the technologies field of the edit form.
TypeEditTech ==
  /\ dash.editing # NotEditing
  /\ dash.input # Str(dash.text)
  /\ dash' = [dash EXCEPT !.input = Str(dash.text), !.touched = TRUE,
                          !.sent = NoRequest]
  /\ DashboardFrame

\* The Cancel button of the edit form.
CancelEdit ==
  /\ dash.editing # NotEditing
  /\ dash' = [dash EXCEPT !.editing = NotEditing, !.sent = NoRequest]
  /\ DashboardFrame

\* updateProject(editingProject): the PUT, when it is answered (ok) the list,
\* and finally setEditingProject(null).
updateProject(ok) ==
  /\ dash.editing # NotEditing
  /\ LET techString == IF dash.input.kind = "string" THEN dash.input.chars
                       ELSE <<>>
         techArray == techArrayOf(techString)
         updatedProject ==
           Spread(dash.editing,
                  [tech |-> Str(techString), techArray |-> Arr(techArray)])
         body == Spread(updatedProject, [tech |-> Arr(techArray)])
         request == [method |-> "PUT", id |-> dash.editing.id, body |-> body]
     IN  dash' =
           IF ok
           THEN [dash EXCEPT
                   !.sent = request,
                   !.projects =
                     [i \in DOMAIN @ |->
                        IF @[i].id = dash.editing.id THEN updatedProject
                        ELSE @[i]],
                   !.editing = NotEditing]
           ELSE [dash EXCEPT !.sent = request, !.editing = NotEditing]
  /\ DashboardFrame

\* The Dashboard with its data loaded; the user types one text into either
\* technologies field, and requests are answered or fail.
InitDashboard ==
  /\ ServerInit /\ variant = "memory" /\ upstream = <<>>
  /\ auth = ProviderFresh(NullToken)
  /\ dash \in {DashboardFresh(LoadedProjects, t) : t \in Inputs}

NextDashboard ==
  \/ TypeNewTech
  \/ \E ok \in BOOLEAN : addProject(ok)
  \/ \E i \in 1..MaxProjects : StartEdit(i)
  \/ TypeEditTech
  \/ CancelEdit
  \/ \E ok \in BOOLEAN : updateProject(ok)

SpecDashboard == InitDashboard /\ [][NextDashboard]_vars

\* The import on its own: the start-up import and the refreshes of a logged-in
\* admin while the upstream listing changes. A request for a page that was
\* sent is answered in the end, by the page or by an error.
InitPaging == Init /\ variant = "memory"

NextPaging ==
  \/ \E u \in Usernames, p \in Passwords : Login(u, p, 1)
  \/ FetchPageOk
  \/ FetchPageFail
  \/ \E h \in AdminHeaders : RefreshGithub(h)
  \/ UpstreamChange

SpecPaging ==
  InitPaging /\ [][NextPaging]_vars /\ WF_vars(FetchPageOk \/ FetchPageFail)

\* Creates of the document store that overlap: two requests are in flight and
\* suspend at each await.
InitCreate == Init /\ variant = "document"

NextCreate ==
  \/ StartDocument
  \/ DocLogin("admin", "password")
  \/ \E k \in DOMAIN inflight, h \in DocHeaders, b \in ProjectBodies :
       DocCreateRead(k, h, b)
  \/ \E k \in DOMAIN inflight : DocCreateSave(k)
  \/ \E k \in DOMAIN inflight : DocCreateRespond(k)

SpecCreate == InitCreate /\ [][NextCreate]_vars

\* The start of the document store: requests arrive before and after the
\* listen callback has set isReady.
InitReady == Init /\ variant = "document"

NextReady ==
  \/ \E op \in DocRoutes : DocNotReady(op)
  \/ Favicon
  \/ StartDocument
  \/ \E stage \in InitStages : StartDocumentInitFails(stage)
  \/ \E u \in Usernames, p \in Passwords : DocLogin(u, p)
  \/ \E h \in DocHeaders : DocVerify(h)
  \/ \E h \in DocHeaders, l \in LearningLists : DocReplaceLearning(h, l)
  \/ \E h \in DocHeaders, b \in ProjectBodies : DocCreateRead(1, h, b)
  \/ DocCreateSave(1)
  \/ DocCreateRespond(1)

SpecReady == InitReady /\ [][NextReady]_vars

InitAuth == Init /\ upstream = <<>>

NextAuth ==
  \/ FetchPageOk
  \/ FetchPageFail
  \/ \E u \in Usernames, p \in Passwords, r \in 1..NumRand : Login(u, p, r)
  \/ \E t \in timers : ExpireSession(t)
  \/ \E h \in MemoryHeaders : Logout(h)
  \/ \E h \in MemoryHeaders : Verify(h)
  \/ \E h \in MemoryHeaders : DashboardData(h)
  \/ StartDocument
  \/ \E u \in Usernames, p \in Passwords : DocLogin(u, p)
  \/ \E h \in DocHeaders : DocLogout(h)
  \/ \E h \in DocHeaders : DocVerify(h)
  \/ \E h \in DocHeaders : DocReplaceLearning(h, <<"Rust">>)
  \/ Tick

SpecAuth == InitAuth /\ [][NextAuth]_vars

\* Every route behind requireAuth, one request of each kind; the clock
\* stands still (SpecAuth lets it run).
GateBody == [title |-> "T", demoUrl |-> "demo"]
InitGate == Init /\ upstream \in {<<>>, <<RepoA1>>}

NextGate ==
  \/ FetchPageOk
  \/ FetchPageFail
  \/ Login("admin", "password", 1)
  \/ \E h \in CatalogHeaders : Logout(h)
  \/ \E h \in CatalogHeaders : DashboardData(h)
  \/ \E h \in CatalogHeaders : UpdateProject(h, 1, GateBody)
  \/ \E h \in CatalogHeaders : CreateProject(h, GateBody)
  \/ \E h \in CatalogHeaders : DeleteProject(h, 1)
  \/ \E h \in CatalogHeaders, sk \in SkillLists : ReplaceSkills(h, sk)
  \/ \E h \in CatalogHeaders, l \in LearningLists : ReplaceLearning(h, l)
  \/ \E h \in CatalogHeaders : RefreshGithub(h)
  \/ StartDocument
  \/ \E op \in DocRoutes : DocNotReady(op)
  \/ DocLogin("admin", "password")
  \/ \E h \in DocHeaders : DocReadStart(1, "dashboard", h)
  \/ \E part \in ReadParts : DocReadOne(1, part)
  \/ \E h \in DocHeaders : DocUpdateProject(h, 1, GateBody)
  \/ \E h \in DocHeaders : DocCreateRead(1, h, GateBody)
  \/ DocCreateSave(1)
  \/ DocCreateRespond(1)
  \/ \E h \in DocHeaders : DocDeleteProject(h, 1)
  \/ \E h \in DocHeaders, sk \in SkillLists : DocSkillsDelete(1, h, sk)
  \/ DocSkillsInsert(1)
  \/ DocSkillsRespond(1)
  \/ \E h \in DocHeaders, l \in LearningLists : DocReplaceLearning(h, l)

SpecGate == InitGate /\ [][NextGate]_vars

\* The skill collection with its writers and readers: replacements and
\* reads in both handler slots of the document store; the clock stands still.
InitSkills == Init /\ upstream = <<>>

NextSkills ==
  \/ FetchPageOk
  \/ Login("admin", "password", 1)
  \/ \E h \in AdminHeaders, sk \in SkillInputs : ReplaceSkills(h, sk)
  \/ PublicData
  \/ \E h \in AdminHeaders : DashboardData(h)
  \/ StartDocument
  \/ DocLogin("admin", "password")
  \/ \E k \in DOMAIN inflight, h \in DocHeaders, sk \in SkillInputs :
       DocSkillsDelete(k, h, sk)
  \/ \E k \in DOMAIN inflight : DocSkillsInsert(k)
  \/ \E k \in DOMAIN inflight : DocSkillsRespond(k)
  \/ \E k \in DOMAIN inflight, h \in DocHeaders :
       DocReadStart(k, "dashboard", h)
  \/ \E k \in DOMAIN inflight : DocReadStart(k, "data", NoHeader)
  \/ \E k \in DOMAIN inflight, part \in ReadParts : DocReadOne(k, part)

SpecSkills == InitSkills /\ [][NextSkills]_vars

\* ================================================================ claims

\* The steps of the import that the formulas below speak about.
ImportCommits == imp.pc = "fetching" /\ imp'.pc = "idle" /\ last'.log = NoLog
\* ... and no project edit arrived while that import was suspended.
QuietCommit == ImportCommits /\ ~imp.raced
ImportFails == imp.pc = "fetching" /\ imp'.pc = "idle" /\ last'.log # NoLog
\* What fetchAllRepos returns in a step that commits.
Fetched == imp.repos \o PageOf(upstream, imp.page)
ListsUrl(repos, url) == \E k \in DOMAIN repos : repos[k].html_url = url
Range(seq) == {seq[i] : i \in DOMAIN seq}
FieldOr(p, f, d) == IF f \in DOMAIN p THEN p[f] ELSE d

\* The step in which a create request stores its project, and the id of it.
CreateStores ==
  \/ variant = "memory" /\ last'.op = "create" /\ edits' = edits + 1
  \/ variant = "document" /\ last'.op = "create-saved"
CreatedId ==
  IF variant = "memory"
  THEN dashboardProjects'[Len(dashboardProjects')].id
  ELSE Project'[Len(Project')].id

\* C1: the id a createProject call assigns is greater than every id assigned
\* before it (by an earlier create or by an import), so no id is ever
\* assigned twice, also after deletions.
C1_CreateIdsIncrease ==
  [][CreateStores => CreatedId > maxAssigned]_vars

\* C3: an import that commits when nothing has changed since the previous
\* import committed (same upstream list, no admin edit) leaves the project
\* collection as it was.
C3_ImportIdempotent ==
  [][(stable /\ ImportCommits) => dashboardProjects' = dashboardProjects]_vars

\* C4: a project imported from a repository that the refresh fetches again
\* keeps its featured flag, its title and its demoUrl across the refresh.
C4_RefreshKeepsEdits ==
  [][QuietCommit =>
       \A i \in DOMAIN dashboardProjects :
         LET p == dashboardProjects[i]
         IN  ( /\ "sourceUrl" \in DOMAIN p
               /\ \E g \in Range(projectsFromGithub) :
                    g.id = p.id /\ g.sourceUrl = p.sourceUrl
               /\ ListsUrl(Fetched, p.sourceUrl) )
             => \E q \in Range(dashboardProjects') :
                  /\ q.id = p.id
                  /\ q.sourceUrl = p.sourceUrl
                  /\ q.featured = p.featured
                  /\ q.title = p.title
                  /\ FieldOr(q, "demoUrl", "") = FieldOr(p, "demoUrl", "")]_vars

\* C5: a project for which the refresh fetched no repository is in the
\* catalog after the refresh, unchanged.
C5_RefreshRemovesNothing ==
  [][QuietCommit =>
       \A p \in Range(dashboardProjects) :
         (~ListsUrl(Fetched, FieldOr(p, "sourceUrl", "")))
           => p \in Range(dashboardProjects')]_vars

\* C6: a failed page request ends the import without any change to the
\* projects, the imported projects, the tags or the id counter, the pages
\* fetched before it changed nothing either, and the server goes on serving.
C6_FailedImportMutatesNothing ==
  [][ /\ ImportFails =>
           (/\ UNCHANGED <<dashboardProjects, projectsFromGithub, techs, nextId>>
            /\ listening')
      /\ (imp.pc = "fetching" /\ imp'.pc = "fetching") =>
           UNCHANGED <<projectsFromGithub, techs, nextId>>
      /\ (imp.pc = "fetching" /\ imp'.pc = "fetching" /\ imp'.page # imp.page) =>
           UNCHANGED dashboardProjects ]_vars

\* A refresh failed on its second page while the catalog held projects.
C6_Witness ==
  /\ last.op = "refresh" /\ last.log = FetchError(2)
  /\ dashboardProjects # <<>> /\ nextId > 1

\* C7: the answer to a refresh whose fetch failed is not a success.
C7_FailedRefreshReported ==
  (last.op = "refresh" /\ last.log # NoLog)
    => (last.status # 200 /\ last.body.success = FALSE)

\* before and after are a collection around an update of the project with
\* this id by this body: the fields the body names have its values, all
\* other fields of that project and all other projects are as before.
OnlyNamedFieldsChange(before, after, id, b) ==
  /\ Len(after) = Len(before)
  /\ \E i \in DOMAIN before :
       /\ before[i].id = id
       /\ \A j \in DOMAIN before : j # i => after[j] = before[j]
       /\ \A f \in DOMAIN before[i] :
            f \notin DOMAIN b => (f \in DOMAIN after[i] /\ after[i][f] = before[i][f])
       /\ \A f \in DOMAIN b : after[i][f] = b[f]
       /\ DOMAIN after[i] = DOMAIN before[i] \cup DOMAIN b

\* C10: an update of an existing project keeps every field the body does not
\* name, and keeps every other project, and the length of the collection.
C10_UpdateIsPartial ==
  [][(last'.op = "update" /\ last'.status = 200) =>
     \A id \in PathIds, b \in ProjectBodies :
       /\ \A h \in CatalogHeaders :
            (UpdateProject(h, id, b) /\ edits' = edits + 1) =>
              OnlyNamedFieldsChange(dashboardProjects, dashboardProjects', id, b)
       /\ \A h \in DocHeaders :
            (DocUpdateProject(h, id, b) /\ edits' = edits + 1) =>
              OnlyNamedFieldsChange(Project, Project', id, b)]_vars

\* { featured: true } was merged into an imported project, next to another.
C10_Witness ==
  /\ last.op = "update" /\ last.status = 200
  /\ Len(dashboardProjects) >= 2
  /\ \E i \in DOMAIN dashboardProjects :
       /\ FieldOr(dashboardProjects[i], "featured", FALSE)
       /\ FieldOr(dashboardProjects[i], "title", "") = "a"
       /\ FieldOr(dashboardProjects[i], "description", Null) = "d2"


\* Admin requests of the two servers that carry header h (for the routes
\* that wait for the database: their first step, where requireAuth runs).
AdminRequest(h) ==
  \/ DashboardData(h)
  \/ UpdateProject(h, 1, GateBody)
  \/ CreateProject(h, GateBody)
  \/ DeleteProject(h, 1)
  \/ \E sk \in SkillLists : ReplaceSkills(h, sk)
  \/ \E l \in LearningLists : ReplaceLearning(h, l)
  \/ RefreshGithub(h)
AdminRequestDoc(h) ==
  \/ DocReadStart(1, "dashboard", h)
  \/ DocUpdateProject(h, 1, GateBody)
  \/ DocCreateRead(1, h, GateBody)
  \/ DocDeleteProject(h, 1)
  \/ \E sk \in SkillLists : DocSkillsDelete(1, h, sk)
  \/ \E l \in LearningLists : DocReplaceLearning(h, l)

\* The header carries no token that is valid now: none at all, or one that
\* is not in the session set / that the server never signed or that expired.
NoValidToken(h) ==
  \/ ~h.present
  \/ variant = "memory" /\ h.cred \notin activeSessions
  \/ variant = "document" /\ (h.cred \notin issued \/ now >= h.cred[2])

C8_LogoutRevokesAtOnce ==
  [][variant = "memory" =>
       /\ last'.op = "logout" =>
            \A h \in MemoryHeaders :
              (Logout(h) /\ h.present) => h.cred \notin activeSessions'
       /\ \A t \in MemoryTokens :
            (t \notin activeSessions /\ t \in activeSessions') =>
              (last'.op = "login" /\ last'.status = 200 /\ last'.body.token = t)
       /\ last'.op = "verify" =>
            \A h \in MemoryHeaders :
              (NoValidToken(h) /\ Verify(h)) => last'.body.valid = FALSE
       /\ last'.op = "dashboard" =>
            \A h \in MemoryHeaders :
              (NoValidToken(h) /\ DashboardData(h)) => last'.status = 401]_vars

\* A token was issued and logged out before its expiry, and a verify
\* since then was answered valid: false.
C8_Witness ==
  /\ variant = "memory"
  /\ last.op = "verify" /\ last.body.valid = FALSE
  /\ \E t \in timers : t \notin activeSessions /\ now < Due(t)

\* C9, the state part: a signed token that a login issued at T verifies at
\* every time before T + 24h and at no time after it; a session token is in
\* the set at no time after T + 24h.
C9_State ==
  /\ \A t \in issued :
       /\ now < t[1] + TokenTTL => verifyToken(t)
       /\ now > t[1] + TokenTTL => ~verifyToken(t)
  /\ \A t \in activeSessions : now <= t[2] + TokenTTL

\* C9, the step part: login issues a token stamped with the current time;
\* a session token leaves the set only by a logout of it or by its expiry
\* callback, which does not run before T + 24h; verify answers by
\* membership (in-memory) and by verifyToken (signed).
C9_Steps ==
  /\ (last'.op = "login" /\ last'.status = 200 /\ variant = "memory") =>
       (last'.body.token \in activeSessions' /\ last'.body.token[2] = now)
  /\ (last'.op = "login" /\ last'.status = 200 /\ variant = "document") =>
       (last'.body.token \in issued' /\ last'.body.token[1] = now)
  /\ \A t \in activeSessions :
       t \notin activeSessions' =>
         \/ Logout(Bearer(t))
         \/ ExpireSession(t) /\ now >= t[2] + TokenTTL
  /\ (last'.op = "verify" /\ variant = "memory") =>
       \A h \in MemoryHeaders :
         Verify(h) => last'.body.valid = (h.present /\ h.cred \in activeSessions)
  /\ (last'.op = "verify" /\ variant = "document") =>
       \A t \in issued :
         DocVerify(Bearer(t)) =>
           /\ now < t[1] + TokenTTL => last'.body.valid
           /\ now > t[1] + TokenTTL => ~last'.body.valid

\* C9: a token issued at T and not revoked is accepted at every time before
\* T + 24h and rejected at every time after it, under both strategies.
C9_TokenLivesOneDay == [](C9_State) /\ [][C9_Steps]_vars

\* After its 24h a signed token issued at time 0 was refused by verify.
C9_Witness ==
  /\ variant = "document" /\ now > TokenTTL
  /\ \E t \in issued : t[1] = 0
  /\ last.op = "verify" /\ last.body.valid = FALSE


\* Some project of the collection has this id.
HasId(coll, id) == \E i \in DOMAIN coll : coll[i].id = id

\* C11: an update that succeeds leaves the id of the project it was sent
\* for equal to the id in the path, whatever id the body carries, and
\* answers with that id.
C11_UpdateKeepsId ==
  [][(last'.op = "update" /\ last'.status = 200) =>
     \A id \in PathIds, b \in ProjectBodies :
       /\ \A h \in AdminHeaders :
            (UpdateProject(h, id, b) /\ edits' = edits + 1) =>
              /\ dashboardProjects'[FindIndex(dashboardProjects, id)].id = id
              /\ last'.body.project.id = id
       /\ \A h \in DocHeaders :
            (DocUpdateProject(h, id, b) /\ edits' = edits + 1) =>
              /\ Project'[findOne(Project, id)].id = id
              /\ last'.body.project.id = id]_vars

\* C12: no two projects of the collection have the same id.
C12_IdsUnique ==
  /\ \A i, j \in DOMAIN dashboardProjects :
       i # j => dashboardProjects[i].id # dashboardProjects[j].id
  /\ \A i, j \in DOMAIN Project : i # j => Project[i].id # Project[j].id

\* The id the create operation is to assign: 1 in an empty collection,
\* else the greatest id plus one.
ExpectedCreateId(coll) ==
  IF coll = <<>> THEN 1 ELSE PlusOne(MathMax(Ids(coll)))

\* C13: create stores a project with the greatest id plus one (1 in an
\* empty collection) and its answer carries the stored record.
C13_CreateIdIsMaxPlusOne ==
  [][ /\ (variant = "memory" /\ last'.op = "create" /\ last'.status = 200) =>
           /\ CreatedId = ExpectedCreateId(dashboardProjects)
           /\ last'.body.project = dashboardProjects'[Len(dashboardProjects')]
      /\ (variant = "document" /\ last'.op = "create-saved") =>
           CreatedId = ExpectedCreateId(Project)
      /\ (variant = "document" /\ last'.op = "create" /\ last'.status = 200) =>
           \E i \in DOMAIN Project :
             /\ last'.body.project = Project[i]
             /\ Project[i].id = inflight[1].nextId ]_vars

\* after is before without its element at index i.
WithoutIndex(before, after, i) ==
  /\ Len(after) = Len(before) - 1
  /\ \A j \in DOMAIN after :
       after[j] = IF j < i THEN before[j] ELSE before[j + 1]

\* What C14 asks of an update or delete of id on a collection.
UnknownIdAnswer(before, after, id) ==
  ~HasId(before, id) => (last'.status = 404 /\ after = before)
DeletesOne(before, after, id) ==
  HasId(before, id) =>
    /\ last'.status = 200
    /\ \E i \in DOMAIN before : before[i].id = id /\ WithoutIndex(before, after, i)

\* C14: an authorized update or delete of an id that no project has is
\* answered 404 and changes no project; an authorized delete of an id that
\* some project has removes one project with that id and nothing else.
C14_NotFoundAndDeleteOne ==
  [][(last'.op \in {"update", "delete"} /\ last'.status \in {200, 404}) =>
     \A id \in PathIds :
       /\ \A h \in AdminHeaders :
            /\ (requireAuth(h) /\ \E b \in ProjectBodies : UpdateProject(h, id, b))
                 => UnknownIdAnswer(dashboardProjects, dashboardProjects', id)
            /\ (requireAuth(h) /\ DeleteProject(h, id)) =>
                 /\ UnknownIdAnswer(dashboardProjects, dashboardProjects', id)
                 /\ DeletesOne(dashboardProjects, dashboardProjects', id)
       /\ \A h \in DocHeaders :
            /\ (requireAuthDoc(h) /\ \E b \in ProjectBodies : DocUpdateProject(h, id, b))
                 => UnknownIdAnswer(Project, Project', id)
            /\ (requireAuthDoc(h) /\ DocDeleteProject(h, id)) =>
                 /\ UnknownIdAnswer(Project, Project', id)
                 /\ DeletesOne(Project, Project', id)]_vars

\* Project 1 of two was deleted, the other one is still there.
C14_Witness ==
  /\ last.op = "delete" /\ last.status = 200 /\ edits = 1
  /\ Len(dashboardProjects) = 1 /\ dashboardProjects[1].id = 2

\* The projects of a collection that came from this repository.
WithUrl(coll, url) ==
  {i \in DOMAIN coll : FieldOr(coll[i], "sourceUrl", "") = url}

\* C19: after an import, every fetched repository has exactly one project;
\* if it had one before, that project kept its id and carries the fetched
\* description; if it had none, its project has an id no project had.
C19_ImportMergesBySourceUrl ==
  [][QuietCommit =>
       \A k \in DOMAIN Fetched :
         LET repo == Fetched[k]
             old == WithUrl(dashboardProjects, repo.html_url)
             new == WithUrl(dashboardProjects', repo.html_url)
         IN  /\ Cardinality(new) = 1
             /\ \A j \in new :
                  /\ dashboardProjects'[j].description = repo.description
                  /\ IF old # {}
                     THEN \E i \in old :
                            dashboardProjects'[j].id = dashboardProjects[i].id
                     ELSE ~HasId(dashboardProjects, dashboardProjects'[j].id)]_vars

\* A stored or returned project has featured = false.
FeaturedIsFalse(p) == "featured" \in DOMAIN p /\ p.featured = FALSE

\* C20: a project created from a body without featured is stored and
\* returned with featured = false.
C20_CreateDefaultsFeatured ==
  [][ /\ (variant = "memory" /\ last'.op = "create" /\ last'.status = 200) =>
           \A h \in AdminHeaders, b \in ProjectBodies :
             ("featured" \notin DOMAIN b /\ CreateProject(h, b)) =>
               /\ FeaturedIsFalse(dashboardProjects'[Len(dashboardProjects')])
               /\ FeaturedIsFalse(last'.body.project)
      /\ (variant = "document" /\ last'.op = "create-saved"
            /\ "featured" \notin DOMAIN inflight[1].body) =>
           FeaturedIsFalse(Project'[Len(Project')])
      /\ (variant = "document" /\ last'.op = "create" /\ last'.status = 200
            /\ "featured" \notin DOMAIN inflight[1].body) =>
           FeaturedIsFalse(last'.body.project) ]_vars

\* The one answer to a login that is refused.
InvalidCredentials ==
  Resp("login", 401, [success |-> FALSE, message |-> "Invalid credentials"])

\* C18: login answers 200 with a token, valid from then on, exactly when
\* the username and the password are both the admin's; every other pair
\* gets the same 401 answer and makes no token valid.
C18_LoginOnlyWithBothCredentials ==
  [][last'.op = "login" =>
     \A u \in Usernames, p \in Passwords :
       /\ \A r \in 1..NumRand :
            Login(u, p, r) =>
              IF u = "admin" /\ p = "password"
              THEN /\ last'.status = 200
                   /\ last'.body.token \in activeSessions'
              ELSE /\ last' = InvalidCredentials
                   /\ UNCHANGED <<activeSessions, timers>>
       /\ DocLogin(u, p) =>
            IF u = "admin" /\ p = "password"
            THEN /\ last'.status = 200
                 /\ last'.body.token \in issued'
                 /\ verifyToken(last'.body.token)
            ELSE /\ last' = InvalidCredentials
                 /\ UNCHANGED issued]_vars

\* A login with a wrong password was refused while a session is open.
C18_Witness ==
  /\ last = InvalidCredentials
  /\ activeSessions # {}

\* No replacement of the skills other than that of slot k is under way.
NoOtherReplace(k) ==
  \A j \in DOMAIN inflight : j # k => inflight[j].op # "skills"

\* C15: when a replacement by the list S has been answered with success
\* (and no other replacement is under way), the stored skills, which are
\* what the next snapshot returns, are S.
C15_ReplaceStoresExactly ==
  [][ /\ (variant = "memory" /\ last'.op = "skills" /\ last'.status = 200) =>
           \A h \in AdminHeaders, sk \in SkillInputs :
             ReplaceSkills(h, sk) => dashboardSkills' = sk
      /\ (variant = "memory" /\ last'.op \in {"data", "dashboard"}
            /\ last'.status = 200) =>
           last'.body.skills = dashboardSkills
      /\ (variant = "document" /\ last'.op = "skills" /\ last'.status = 200) =>
           \A k \in DOMAIN inflight :
             (DocSkillsRespond(k) /\ NoOtherReplace(k)) =>
               /\ Skill' = inflight[k].skills
               /\ last'.body.skills = inflight[k].skills
      /\ (variant = "document" /\ last'.op \in {"data", "dashboard"}
            /\ last'.status = 200) =>
           \A k \in DOMAIN inflight :
             DocReadOne(k, "skills") => last'.body.skills = Skill ]_vars

\* The skill lists that were ever stored whole: the default one and the
\* lists of the replacement requests.
WholeSkillLists == {DefaultSkills} \cup SkillInputs

\* C16: a read of the catalog returns a skill list that was stored whole,
\* never the empty or half-filled collection of a replacement under way.
C16_ReadSeesWholeList ==
  (last.op \in {"data", "dashboard"} /\ last.status = 200)
    => last.body.skills \in WholeSkillLists

\* Some entry of the list does not fit skillSchema.
InvalidSkills(sk) == \E i \in DOMAIN sk : ~validSkill(sk[i])

\* C17: a replacement by a list with a level outside [0, 100] or an unknown
\* category is answered 400 and the stored skills are as the request found
\* them.
C17_InvalidSkillsRejected ==
  [][ /\ (variant = "memory" /\ last'.op = "skills") =>
           \A h \in AdminHeaders, sk \in SkillInputs :
             (requireAuth(h) /\ InvalidSkills(sk) /\ ReplaceSkills(h, sk)) =>
               (last'.status = 400 /\ dashboardSkills' = dashboardSkills)
      /\ (variant = "document" /\ last'.op = "skills") =>
           \A k \in DOMAIN inflight :
             (DocSkillsInsert(k) /\ InvalidSkills(inflight[k].skills)) =>
               (last'.status = 400 /\ Skill' = inflight[k].before) ]_vars

\* C21: a logout of the signed-token server changes nothing on the server;
\* every token verifies after it as it did before it, and verify and
\* requireAuth answer by verifyToken alone, so a token is accepted after a
\* logout until its expiry.
C21_SignedLogoutIsNoOp ==
  [][variant = "document" =>
       /\ last'.op = "logout" =>
            \A h \in DocHeaders :
              DocLogout(h) =>
                /\ UNCHANGED docVars
                /\ \A t \in issued : verifyToken(t)' = verifyToken(t)
       /\ last'.op = "verify" =>
            \A t \in issued :
              DocVerify(Bearer(t)) => last'.body.valid = (now < t[2])
       /\ last'.op = "learning" =>
            \A t \in issued, l \in LearningLists :
              (DocReplaceLearning(Bearer(t), l) /\ now < t[2]) =>
                last'.status = 200]_vars

\* A logout was answered while a signed token is still within its 24 hours.
C21_Witness ==
  /\ variant = "document"
  /\ last.op = "logout" /\ last.status = 200
  /\ \E t \in issued : verifyToken(t)

\* C28: a login adds its token and keeps every session; a logout and an
\* expiry callback remove the token they are for and no other.
C28_SessionsIndependent ==
  [][variant = "memory" =>
       /\ (last'.op = "login" /\ last'.status = 200) =>
            activeSessions' = activeSessions \cup {last'.body.token}
       /\ last'.op = "logout" =>
            \A h \in MemoryHeaders :
              Logout(h) =>
                activeSessions' = activeSessions \ {ExtractToken(h)}
       /\ last'.op = "expire" =>
            \A t \in timers :
              ExpireSession(t) => activeSessions' = activeSessions \ {t}]_vars

\* The token of the first login expired while a later one stays valid.
C28_Witness ==
  /\ variant = "memory"
  /\ last.op = "expire"
  /\ activeSessions # {}
  /\ \E t \in activeSessions : now < Due(t)

\* The pages fetchAllRepos has received before the request it waits for were
\* all full: page k is requested after k - 1 pages of PerPage entries.
OnlyFullPagesBefore ==
  imp.pc = "fetching" =>
    /\ imp.page >= 1
    /\ Len(imp.repos) = (imp.page - 1) * PerPage

TechsComplete ==
  variant = "memory" =>
    /\ Includes(techs, "all")
    /\ \A i \in DOMAIN projectsFromGithub :
         \A j \in DOMAIN projectsFromGithub[i].tech :
           Includes(techs, projectsFromGithub[i].tech[j])
    /\ \A i, j \in DOMAIN techs : techs[i] = techs[j] => i = j

\* techs only grows at its end.
TechsAppendOnly ==
  /\ Len(techs') >= Len(techs)
  /\ SubSeq(techs', 1, Len(techs)) = techs

\* C23: techs always contains "all" and the language of every repository
\* imported so far, never a tag twice, and no step (an import, an edit, a
\* delete of the project a tag came from) removes or moves a tag.
C23_TechsAppendOnly ==
  [](TechsComplete) /\ [][TechsAppendOnly]_vars

\* The same repository was imported twice, and a project of it was deleted
\* afterwards: its language is listed once and is still listed.
C23_Witness ==
  /\ variant = "memory"
  /\ Len(projectsFromGithub) = 2
  /\ projectsFromGithub[1].sourceUrl = projectsFromGithub[2].sourceUrl
  /\ Len(techs) = 2
  /\ Includes(techs, projectsFromGithub[1].tech[1])
  /\ last.op = "delete" /\ last.status = 200
  /\ Len(dashboardProjects) < 2

\* Every project the collection held before the commit of an import is held
\* after it, and every project held after it was held before or is one the
\* import made.
CommitKeepsEdits ==
  /\ \A i \in DOMAIN dashboardProjects :
       dashboardProjects[i] \in Range(dashboardProjects')
  /\ \A i \in DOMAIN dashboardProjects' :
       \/ dashboardProjects'[i] \in Range(dashboardProjects)
       \/ dashboardProjects'[i].id >= nextId

\* C26: a create, update or delete of the admin completed while the refresh
\* waited for a page is in the collection after the refresh has committed.
C26_RefreshKeepsConcurrentEdits ==
  [][(ImportCommits /\ imp.raced) => CommitKeepsEdits]_vars

\* The document the create in flight in slot k saves.
CreateDoc(k) == newDocument(inflight[k].nextId, inflight[k].body)

\* The create in slot j has saved the id that the create in slot k is about
\* to save; both read their id before either saved when the ids they read
\* are the same.
SavedSameId(j, k) ==
  /\ j # k
  /\ inflight[j].op = "create" /\ inflight[j].pc = "findOne"
  /\ inflight[k].op = "create" /\ inflight[k].pc = "save"
  /\ CreateDoc(j).id = CreateDoc(k).id

\* No two stored projects of the document store have the same id.
DocIdsUnique ==
  variant = "document" =>
    \A i, j \in DOMAIN Project : Project[i].id = Project[j].id => i = j

\* C27: in the document store no two projects ever have the same id; of two
\* creates that read the same next id before either saved, the save that
\* comes second stores nothing and its request is answered with an error.
C27_ConcurrentCreatesKeepIdsUnique ==
  /\ [](DocIdsUnique)
  /\ [][last'.op = "create" =>
          \A j, k \in DOMAIN inflight :
            (SavedSameId(j, k) /\ DocCreateSave(k)) =>
              /\ last' = InternalError("create")
              /\ Project' = Project]_vars

\* Both creates read next id 1 from the empty collection and carry a title;
\* the first has saved its project and the save of the second is due.
C27_Witness ==
  /\ variant = "document"
  /\ Len(Project) = 1 /\ Project[1].id = 1
  /\ \E j, k \in DOMAIN inflight :
       /\ SavedSameId(j, k)
       /\ inflight[j].nextId = 1 /\ inflight[k].nextId = 1
       /\ "title" \in DOMAIN inflight[k].body

\* The answer of the readiness middleware.
Answered503 ==
  /\ last'.status = 503
  /\ "retryAfter" \in DOMAIN last'
  /\ last'.retryAfter = "10"

\* C29: while isReady is false a request other than GET /favicon.ico is
\* answered 503 with Retry-After and changes nothing (no route handler ran);
\* isReady turns true in the listen callback, after initializeDefaultData
\* returned with or without an internal failure, and never turns false.
C29_NotReadyAnswers503 ==
  [][variant = "document" =>
       /\ (~isReady /\ ~isReady') =>
            /\ last'.op = "favicon" \/ Answered503
            /\ UNCHANGED docVars
       /\ (~isReady /\ isReady') =>
            \/ StartDocument
            \/ \E stage \in InitStages : StartDocumentInitFails(stage)
       /\ isReady => isReady']_vars

\* A request was answered 503 with Retry-After before the server was ready.
C29_Witness ==
  /\ variant = "document" /\ ~isReady
  /\ last.status = 503 /\ last.op = "login"
  /\ "retryAfter" \in DOMAIN last

\* No call of AuthProvider is waiting for its answer.
Settled == auth.mounted /\ auth.calls = {}

\* isAuthenticated says whether there is a token, and sessionStorage holds
\* the token there is.
ProviderConsistent ==
  /\ auth.isAuthenticated = (auth.token # NullToken)
  /\ auth.token # NullToken => auth.storage = auth.token

\* A step that runs the finally block of logout.
LogoutEnds ==
  \/ \E c \in auth.calls : LogoutResolve(c)
  \/ LogoutCall /\ auth.token = NullToken

\* C30: whenever every verifyToken, login and logout call has completed,
\* isAuthenticated is true exactly when token is not null and sessionStorage
\* then holds that token; a logout ends with no token, not authenticated and
\* nothing in sessionStorage; loading becomes false after the mount.
C30_ProviderStateConsistent ==
  /\ [](Settled => ProviderConsistent)
  /\ [][LogoutEnds =>
          /\ auth'.token = NullToken
          /\ ~auth'.isAuthenticated
          /\ auth'.storage = NullToken]_vars
  /\ <>[](~auth.loading)

IsLetter(c) == c \notin {",", " "}
Letters(s) == SelectSeq(s, IsLetter)

RECURSIVE Flatten(_)
Flatten(items) ==
  IF items = <<>> THEN <<>> ELSE Head(items) \o Flatten(Tail(items))

\* The positions of text that hold the first letter after a comma (or after
\* the start): one for each piece of text that is not blank.
FirstLetters(text) ==
  {i \in DOMAIN text :
     /\ IsLetter(text[i])
     /\ \A j \in 1..(i - 1) :
          (\A k \in j..i : text[k] # ",") => ~IsLetter(text[j])}

\* items is text cut at its commas: no item is empty, holds a comma, or
\* starts or ends with a blank; the items carry the letters of text in
\* order, and there is one item for each piece of text that is not blank.
CutAtCommas(text, items) ==
  /\ \A k \in DOMAIN items :
       /\ items[k] # <<>>
       /\ \A i \in DOMAIN items[k] : items[k][i] # ","
       /\ Head(items[k]) # " "
       /\ items[k][Len(items[k])] # " "
  /\ Letters(Flatten(items)) = Letters(text)
  /\ Len(items) = Cardinality(FirstLetters(text))

C25_UntouchedEditKeepsTech ==
  [][(/\ dash'.sent.method = "PUT"
      /\ ~dash.touched
      /\ dash.editing.tech.kind = "array") =>
       dash'.sent.body.tech = dash.editing.tech]_vars

====
